---- MODULE Spec2Model ----
(***************************************************************************)
(* Telemetry-driven display controller of pc-status-display               *)
(* (system_manager.cpp, with the widget flags of ui_components.cpp and    *)
(* the backlight pin of display_driver.cpp).                              *)
(*                                                                         *)
(* millis() is an unsigned long of 32 bits on the ESP32-S3.  A timestamp   *)
(* is kept as two 16-bit limbs <<hi, lo>> so that the arithmetic modulo    *)
(* 2^32 is exact.                                                          *)
(***************************************************************************)
EXTENDS Integers, Sequences, FiniteSets, TLC

\* ------------------------------------------------------------------------
\* Bounds of the model
\* ------------------------------------------------------------------------

\* number of times the clock may move during one behaviour
MaxTicks == 3

\* largest number of milliseconds that pass between the two millis() reads
\* of one handler
MaxSkew == 1

\* largest number of timer interrupts followed
MaxLvTicks == 2

\* ------------------------------------------------------------------------
\* Program constants
\* ------------------------------------------------------------------------

METER_HIDE_TIMEOUT_MS == 60000

DISPLAY_BLANK_TIMEOUT_MS == 60000

\* ------------------------------------------------------------------------
\* unsigned long (32 bits) as two limbs
\* ------------------------------------------------------------------------

Limb == 2^16

U32(n) == <<(n \div Limb) % Limb, n % Limb>>

U32Zero == <<0, 0>>

\* a + d modulo 2^32, for 0 <= d < 2^31 - 2^16
U32Add(a, d) ==
  LET s == a[2] + d
  IN  <<(a[1] + (s \div Limb)) % Limb, s % Limb>>

\* a - b that gives 0 instead of wrapping when a is numerically below b
U32Sub_saturating(a, b) ==
  IF a[1] < b[1] \/ (a[1] = b[1] /\ a[2] < b[2])
    THEN U32Zero
    ELSE LET borrow == IF a[2] < b[2] THEN 1 ELSE 0
         IN  <<a[1] - b[1] - borrow, (a[2] - b[2] + Limb) % Limb>>

\* a - b modulo 2^32
U32Sub(a, b) ==
  LET borrow == IF a[2] < b[2] THEN 1 ELSE 0
  IN  <<(a[1] - b[1] - borrow + 2 * Limb) % Limb, (a[2] - b[2] + Limb) % Limb>>

\* a >= n for an unsigned long a and a constant 0 <= n < 2^31
U32Geq(a, n) ==
  \/ a[1] > n \div Limb
  \/ a[1] = n \div Limb /\ a[2] >= n % Limb

\* ------------------------------------------------------------------------
\* Inputs
\* ------------------------------------------------------------------------

\* readings of millis() at which system_manager_init has returned
StartTimes == {U32Zero, <<Limb - 1, Limb - METER_HIDE_TIMEOUT_MS>>}

\* milliseconds that pass between two calls into the controller
Steps == {1, 10000, 59999}

Skews == 0..MaxSkew

\* milliseconds by which the second clock of ShiftSpec is ahead
ClockShift == DISPLAY_BLANK_TIMEOUT_MS

TempValues == {0, 3}

LoadValues == {0, 5}

\* values outside 0..100 that deserializeJson can deliver as an int
WideTempValues == {0, -1, 150}

WideLoadValues == {0, -40, 150}

\* non-zero values a last value can hold after such a record
WideLastValues == {-1, 150}

VARIABLES
  m,        \* globals of system_manager.cpp, widget flags, backlight, effects of the last call
  clock,    \* current reading of millis()
  ticks,    \* number of times the clock has moved
  op,       \* the last call: "init", "ingest", "periodic", "status", "advance", "no_data", "parse_error", "tick"
  args,     \* arguments of the last system_process_data
  zeroAge,  \* per channel: true milliseconds since the first zero of the current zero run, -1 outside a run
  hides,    \* per channel: hide invocations since the current zero run began
  totals,   \* invocations of ui_blank_entire_display, backlight_off and hide_boot_animation since init
  twin,     \* the controller's record had every reading of millis() been ClockShift later
  pc,       \* position in loop(): "serial", "periodic" or "delay"; inside a call "meters" or "timeout"
  report,   \* << >>, or the one status report returned by the last call
  recvAge,  \* true milliseconds since the last reception was stamped, -1 before the first
  history,  \* the calls made so far while they follow one of the Scenarios, else Off
  lv_tick,  \* LVGL's tick count, incremented by the 1 ms timer interrupt
  quiet     \* the controller's record had the timer interrupt never fired

vars == <<m, clock, ticks, op, args, zeroAge, hides, totals, pc, twin, report, recvAge, history,
         lv_tick, quiet>>

\* ------------------------------------------------------------------------
\* UI collaborator (ui_components.cpp) and backlight (display_driver.cpp)
\* A widget field is TRUE when LV_OBJ_FLAG_HIDDEN is set on the widget.
\* ------------------------------------------------------------------------

Call(s, name) == [s EXCEPT !.trace = Append(@, name)]

hide_boot_animation(s) ==
  LET c == Call(s, "hide_boot_animation")
  IN  [c EXCEPT !.boot_animation_container = TRUE,
                !.cpu_temp_meter = FALSE,
                !.cpu_load_meter = FALSE,
                !.center_button = FALSE,
                !.time_label = FALSE]

ui_hide_cpu_temp_meter(s) ==
  [Call(s, "ui_hide_cpu_temp_meter") EXCEPT !.cpu_temp_meter = TRUE]

ui_show_cpu_temp_meter(s) ==
  [Call(s, "ui_show_cpu_temp_meter") EXCEPT !.cpu_temp_meter = FALSE]

ui_hide_cpu_load_meter(s) ==
  [Call(s, "ui_hide_cpu_load_meter") EXCEPT !.cpu_load_meter = TRUE]

ui_show_cpu_load_meter(s) ==
  [Call(s, "ui_show_cpu_load_meter") EXCEPT !.cpu_load_meter = FALSE]

ui_blank_entire_display(s) ==
  [Call(s, "ui_blank_entire_display") EXCEPT !.cpu_temp_meter = TRUE,
                                             !.cpu_load_meter = TRUE,
                                             !.center_button = TRUE,
                                             !.time_label = TRUE]

ui_show_entire_display(s) ==
  [Call(s, "ui_show_entire_display") EXCEPT !.cpu_temp_meter = FALSE,
                                            !.cpu_load_meter = FALSE,
                                            !.center_button = FALSE,
                                            !.time_label = FALSE]

backlight_on(s) == [Call(s, "backlight_on") EXCEPT !.backlight = TRUE]

backlight_off(s) == [Call(s, "backlight_off") EXCEPT !.backlight = FALSE]

\* ------------------------------------------------------------------------
\* System manager (system_manager.cpp)
\* ------------------------------------------------------------------------

system_handle_first_data(s) ==
  hide_boot_animation([s EXCEPT !.sys_first_data_received = TRUE])

\* system_hide_cpu_temp_meter without the check of the hidden flag
system_hide_cpu_temp_meter_unguarded(s) ==
  [ui_hide_cpu_temp_meter(s) EXCEPT !.sys_cpu_temp_meter_hidden = TRUE]

system_hide_cpu_temp_meter(s) ==
  IF ~s.sys_cpu_temp_meter_hidden
    THEN [ui_hide_cpu_temp_meter(s) EXCEPT !.sys_cpu_temp_meter_hidden = TRUE]
    ELSE s

\* system_show_cpu_temp_meter that shows the widget but leaves the flag set
system_show_cpu_temp_meter_stale_flag(s) ==
  IF s.sys_cpu_temp_meter_hidden
    THEN ui_show_cpu_temp_meter(s)
    ELSE s

system_show_cpu_temp_meter(s) ==
  IF s.sys_cpu_temp_meter_hidden
    THEN [ui_show_cpu_temp_meter(s) EXCEPT !.sys_cpu_temp_meter_hidden = FALSE]
    ELSE s

system_hide_cpu_load_meter(s) ==
  IF ~s.sys_cpu_load_meter_hidden
    THEN [ui_hide_cpu_load_meter(s) EXCEPT !.sys_cpu_load_meter_hidden = TRUE]
    ELSE s

system_show_cpu_load_meter(s) ==
  IF s.sys_cpu_load_meter_hidden
    THEN [ui_show_cpu_load_meter(s) EXCEPT !.sys_cpu_load_meter_hidden = FALSE]
    ELSE s

\* system_blank_entire_display without the check of the blanked flag
system_blank_entire_display_unguarded(s) ==
  [backlight_off(ui_blank_entire_display(s)) EXCEPT !.sys_display_blanked = TRUE]

\* system_blank_entire_display that leaves the backlight on
system_blank_entire_display_backlight_on(s) ==
  IF ~s.sys_display_blanked
    THEN [ui_blank_entire_display(s) EXCEPT !.sys_display_blanked = TRUE]
    ELSE s

\* system_blank_entire_display that also clears both zero timers
system_blank_entire_display_clears_timers(s) ==
  IF ~s.sys_display_blanked
    THEN [backlight_off(ui_blank_entire_display(s))
            EXCEPT !.sys_display_blanked = TRUE,
                   !.sys_cpu_temp_zero_start_time = U32Zero,
                   !.sys_cpu_load_zero_start_time = U32Zero]
    ELSE s

system_blank_entire_display(s) ==
  IF ~s.sys_display_blanked
    THEN [backlight_off(ui_blank_entire_display(s)) EXCEPT !.sys_display_blanked = TRUE]
    ELSE s

\* system_show_entire_display that restores the screen but leaves the flag set
system_show_entire_display_stale_flag(s) ==
  IF s.sys_display_blanked
    THEN backlight_on(ui_show_entire_display(s))
    ELSE s

\* system_show_entire_display that also clears both meters' hidden flags
system_show_entire_display_clears_hidden(s) ==
  IF s.sys_display_blanked
    THEN [backlight_on(ui_show_entire_display(s))
            EXCEPT !.sys_display_blanked = FALSE,
                   !.sys_cpu_temp_meter_hidden = FALSE,
                   !.sys_cpu_load_meter_hidden = FALSE]
    ELSE s

system_show_entire_display(s) ==
  IF s.sys_display_blanked
    THEN [backlight_on(ui_show_entire_display(s)) EXCEPT !.sys_display_blanked = FALSE]
    ELSE s

\* update_cpu_temp that restarts the hiding timer at every zero value
update_cpu_temp_restart(s, cpu_temp, current_time) ==
  IF cpu_temp = 0
    THEN LET s1 == [s EXCEPT !.sys_cpu_temp_zero_start_time = current_time]
         IN  IF U32Geq(U32Sub(current_time, s1.sys_cpu_temp_zero_start_time),
                       METER_HIDE_TIMEOUT_MS)
               THEN system_hide_cpu_temp_meter(s1)
               ELSE s1
    ELSE LET s1 == IF s.sys_cpu_temp_meter_hidden
                     THEN system_show_cpu_temp_meter(s)
                     ELSE s
         IN  [s1 EXCEPT !.sys_cpu_temp_zero_start_time = U32Zero]

\* update_cpu_temp that takes a negative temperature for zero
update_cpu_temp_nonpositive(s, cpu_temp, current_time) ==
  IF cpu_temp <= 0
    THEN LET s1 == IF s.sys_last_cpu_temp # 0
                     THEN [s EXCEPT !.sys_cpu_temp_zero_start_time = current_time]
                     ELSE s
         IN  IF U32Geq(U32Sub(current_time, s1.sys_cpu_temp_zero_start_time),
                       METER_HIDE_TIMEOUT_MS)
               THEN system_hide_cpu_temp_meter(s1)
               ELSE s1
    ELSE LET s1 == IF s.sys_cpu_temp_meter_hidden
                     THEN system_show_cpu_temp_meter(s)
                     ELSE s
         IN  [s1 EXCEPT !.sys_cpu_temp_zero_start_time = U32Zero]

\* the CPU temperature half of system_update_meter_values; current_time is
\* the millis() read at the top of the function
update_cpu_temp(s, cpu_temp, current_time) ==
  IF cpu_temp = 0
    THEN LET s1 == IF s.sys_last_cpu_temp # 0
                     THEN [s EXCEPT !.sys_cpu_temp_zero_start_time = current_time]
                     ELSE s
         IN  IF U32Geq(U32Sub(current_time, s1.sys_cpu_temp_zero_start_time),
                       METER_HIDE_TIMEOUT_MS)
               THEN system_hide_cpu_temp_meter(s1)
               ELSE s1
    ELSE LET s1 == IF s.sys_cpu_temp_meter_hidden
                     THEN system_show_cpu_temp_meter(s)
                     ELSE s
         IN  [s1 EXCEPT !.sys_cpu_temp_zero_start_time = U32Zero]

\* update_cpu_load that leaves a hidden meter hidden on a non-zero value
update_cpu_load_no_show(s, cpu_load, current_time) ==
  IF cpu_load = 0
    THEN LET s1 == IF s.sys_last_cpu_load # 0
                     THEN [s EXCEPT !.sys_cpu_load_zero_start_time = current_time]
                     ELSE s
         IN  IF U32Geq(U32Sub(current_time, s1.sys_cpu_load_zero_start_time),
                       METER_HIDE_TIMEOUT_MS)
               THEN system_hide_cpu_load_meter(s1)
               ELSE s1
    ELSE [s EXCEPT !.sys_cpu_load_zero_start_time = U32Zero]

\* the CPU load half of system_update_meter_values
update_cpu_load(s, cpu_load, current_time) ==
  IF cpu_load = 0
    THEN LET s1 == IF s.sys_last_cpu_load # 0
                     THEN [s EXCEPT !.sys_cpu_load_zero_start_time = current_time]
                     ELSE s
         IN  IF U32Geq(U32Sub(current_time, s1.sys_cpu_load_zero_start_time),
                       METER_HIDE_TIMEOUT_MS)
               THEN system_hide_cpu_load_meter(s1)
               ELSE s1
    ELSE LET s1 == IF s.sys_cpu_load_meter_hidden
                     THEN system_show_cpu_load_meter(s)
                     ELSE s
         IN  [s1 EXCEPT !.sys_cpu_load_zero_start_time = U32Zero]

\* system_update_meter_values that stores the new values before comparing
system_update_meter_values_last_first(s, cpu_temp, cpu_load, current_time) ==
  LET s0 == [s EXCEPT !.sys_last_cpu_temp = cpu_temp,
                      !.sys_last_cpu_load = cpu_load]
      s1 == update_cpu_temp(s0, cpu_temp, current_time)
  IN  update_cpu_load(s1, cpu_load, current_time)

\* system_update_meter_values in which the load's zero timer also serves
\* the temperature
system_update_meter_values_shared_timer(s, cpu_temp, cpu_load, current_time) ==
  LET s1 == update_cpu_temp(s, cpu_temp, current_time)
      s2 == update_cpu_load(s1, cpu_load, current_time)
  IN  [s2 EXCEPT !.sys_last_cpu_temp = cpu_temp,
                 !.sys_last_cpu_load = cpu_load,
                 !.sys_cpu_temp_zero_start_time = s2.sys_cpu_load_zero_start_time]

\* current_time is the millis() read at the top of the function
system_update_meter_values(s, cpu_temp, cpu_load, current_time) ==
  LET s1 == update_cpu_temp(s, cpu_temp, current_time)
      s2 == update_cpu_load(s1, cpu_load, current_time)
  IN  [s2 EXCEPT !.sys_last_cpu_temp = cpu_temp,
                 !.sys_last_cpu_load = cpu_load]

\* system_process_data that updates the meters before it restores the display
system_process_data_meters_first(s, cpu_temp, cpu_load, now1, now2) ==
  LET s1 == [Call(s, "stamp") EXCEPT !.sys_last_data_received_time = now1]
      s2 == IF ~s1.sys_first_data_received THEN system_handle_first_data(s1) ELSE s1
      s3 == system_update_meter_values(s2, cpu_temp, cpu_load, now2)
  IN  IF s3.sys_display_blanked THEN system_show_entire_display(s3) ELSE s3

\* system_process_data that handles every reception as the first one
system_process_data_always_first(s, cpu_temp, cpu_load, now1, now2) ==
  LET s1 == [Call(s, "stamp") EXCEPT !.sys_last_data_received_time = now1]
      s2 == system_handle_first_data(s1)
      s3 == IF s2.sys_display_blanked THEN system_show_entire_display(s2) ELSE s2
  IN  system_update_meter_values(s3, cpu_temp, cpu_load, now2)

\* now1 is the millis() read by system_process_data itself, now2 the one
\* read by system_update_meter_values
system_process_data(s, cpu_temp, cpu_load, now1, now2) ==
  LET s1 == [Call(s, "stamp") EXCEPT !.sys_last_data_received_time = now1]
      s2 == IF ~s1.sys_first_data_received THEN system_handle_first_data(s1) ELSE s1
      s3 == IF s2.sys_display_blanked THEN system_show_entire_display(s2) ELSE s2
  IN  system_update_meter_values(s3, cpu_temp, cpu_load, now2)

\* system_check_meter_hiding_conditions that looks at the timeout only
system_check_meter_hiding_conditions_timeout_only(s, current_time) ==
  LET s1 == IF U32Geq(U32Sub(current_time, s.sys_cpu_temp_zero_start_time),
                      METER_HIDE_TIMEOUT_MS)
              THEN system_hide_cpu_temp_meter(s)
              ELSE s
  IN  IF U32Geq(U32Sub(current_time, s1.sys_cpu_load_zero_start_time),
                METER_HIDE_TIMEOUT_MS)
        THEN system_hide_cpu_load_meter(s1)
        ELSE s1

system_check_meter_hiding_conditions(s, current_time) ==
  LET s1 == IF /\ s.sys_last_cpu_temp = 0
               /\ s.sys_cpu_temp_zero_start_time # U32Zero
               /\ U32Geq(U32Sub(current_time, s.sys_cpu_temp_zero_start_time),
                         METER_HIDE_TIMEOUT_MS)
              THEN system_hide_cpu_temp_meter(s)
              ELSE s
  IN  IF /\ s1.sys_last_cpu_load = 0
         /\ s1.sys_cpu_load_zero_start_time # U32Zero
         /\ U32Geq(U32Sub(current_time, s1.sys_cpu_load_zero_start_time),
                   METER_HIDE_TIMEOUT_MS)
        THEN system_hide_cpu_load_meter(s1)
        ELSE s1

\* system_check_data_timeout without the startup guard
system_check_data_timeout_unguarded(s, current_time) ==
  IF U32Geq(U32Sub(current_time, s.sys_last_data_received_time),
            DISPLAY_BLANK_TIMEOUT_MS)
    THEN system_blank_entire_display(s)
    ELSE s

\* system_check_data_timeout that blanks one millisecond early
system_check_data_timeout_early(s, current_time) ==
  IF /\ s.sys_first_data_received
     /\ s.sys_last_data_received_time # U32Zero
     /\ U32Geq(U32Sub(current_time, s.sys_last_data_received_time),
               DISPLAY_BLANK_TIMEOUT_MS - 1)
    THEN system_blank_entire_display(s)
    ELSE s

\* current_time is the millis() read at the top of the function
system_check_data_timeout(s, current_time) ==
  IF /\ s.sys_first_data_received
     /\ s.sys_last_data_received_time # U32Zero
     /\ U32Geq(U32Sub(current_time, s.sys_last_data_received_time),
               DISPLAY_BLANK_TIMEOUT_MS)
    THEN system_blank_entire_display(s)
    ELSE s

\* system_periodic_update that stores the time of its check as a reception
system_periodic_update_restamps(s, now1, now2) ==
  [system_check_data_timeout(system_check_meter_hiding_conditions(s, now1), now2)
     EXCEPT !.sys_last_data_received_time = now2]

\* now1 is the millis() read by system_check_meter_hiding_conditions, now2
\* the one read by system_check_data_timeout
system_periodic_update(s, now1, now2) ==
  system_check_data_timeout(system_check_meter_hiding_conditions(s, now1), now2)

\* update_meter_needle_animated for the meter named
update_meter_needle_animated(s, meter, new_value) ==
  IF meter = "cpu_temp_meter"
    THEN LET u == [s EXCEPT !.cpu_temp_current_value = new_value]
         IN  IF s.cpu_temp_current_value = new_value THEN u ELSE Call(u, "lv_anim_start")
    ELSE LET u == [s EXCEPT !.cpu_load_current_value = new_value]
         IN  IF s.cpu_load_current_value = new_value THEN u ELSE Call(u, "lv_anim_start")

\* the serial part of loop() that hands a record to the controller although
\* deserializeJson reported an error
loop_serial_error_ignored(s, available, error, cpu_temp, cpu_load, now1, now2) ==
  IF ~available THEN s
  ELSE LET p == system_process_data(s, cpu_temp, cpu_load, now1, now2)
           a == IF ~p.sys_cpu_temp_meter_hidden
                  THEN update_meter_needle_animated(p, "cpu_temp_meter", cpu_temp) ELSE p
           b == IF ~a.sys_cpu_load_meter_hidden
                  THEN update_meter_needle_animated(a, "cpu_load_meter", cpu_load) ELSE a
       IN  IF p.sys_display_blanked THEN p ELSE Call(b, "lv_label_set_text")

\* the serial part of loop(): available is Serial.available(), error the
\* result of deserializeJson, cpu_temp and cpu_load the fields extracted
loop_serial(s, available, error, cpu_temp, cpu_load, now1, now2) ==
  IF ~available \/ error THEN s
  ELSE LET p == system_process_data(s, cpu_temp, cpu_load, now1, now2)
           a == IF ~p.sys_cpu_temp_meter_hidden
                  THEN update_meter_needle_animated(p, "cpu_temp_meter", cpu_temp) ELSE p
           b == IF ~a.sys_cpu_load_meter_hidden
                  THEN update_meter_needle_animated(a, "cpu_load_meter", cpu_load) ELSE a
       IN  IF p.sys_display_blanked THEN p ELSE Call(b, "lv_label_set_text")

YesNo(b) == IF b THEN "Yes" ELSE "No"

\* system_get_status that stamps the reception time while reporting
system_get_status_stamping(s, now) ==
  [state  |-> [s EXCEPT !.sys_last_data_received_time = now],
   report |-> [first_data_received   |-> YesNo(s.sys_first_data_received),
               display_blanked       |-> YesNo(s.sys_display_blanked),
               cpu_temp_meter_hidden |-> YesNo(s.sys_cpu_temp_meter_hidden),
               cpu_load_meter_hidden |-> YesNo(s.sys_cpu_load_meter_hidden),
               last_cpu_temp         |-> s.sys_last_cpu_temp,
               last_cpu_load         |-> s.sys_last_cpu_load,
               time_since_last_data  |->
                 IF s.sys_last_data_received_time # U32Zero
                   THEN [never |-> FALSE, ms |-> U32Sub(now, s.sys_last_data_received_time)]
                   ELSE [never |-> TRUE, ms |-> U32Zero]]]

\* the state system_get_status leaves and the lines of the string it
\* returns; now is its millis() read
system_get_status(s, now) ==
  [state  |-> s,
   report |-> [first_data_received   |-> YesNo(s.sys_first_data_received),
               display_blanked       |-> YesNo(s.sys_display_blanked),
               cpu_temp_meter_hidden |-> YesNo(s.sys_cpu_temp_meter_hidden),
               cpu_load_meter_hidden |-> YesNo(s.sys_cpu_load_meter_hidden),
               last_cpu_temp         |-> s.sys_last_cpu_temp,
               last_cpu_load         |-> s.sys_last_cpu_load,
               time_since_last_data  |->
                 IF s.sys_last_data_received_time # U32Zero
                   THEN [never |-> FALSE, ms |-> U32Sub(now, s.sys_last_data_received_time)]
                   ELSE [never |-> TRUE, ms |-> U32Zero]]]

\* state left by setup(): display_init, ui_init, system_manager_init
system_manager_init ==
  [ sys_last_data_received_time  |-> U32Zero,
    sys_first_data_received      |-> FALSE,
    sys_cpu_temp_zero_start_time |-> U32Zero,
    sys_cpu_load_zero_start_time |-> U32Zero,
    sys_cpu_temp_meter_hidden    |-> FALSE,
    sys_cpu_load_meter_hidden    |-> FALSE,
    sys_last_cpu_temp            |-> -1,
    sys_last_cpu_load            |-> -1,
    sys_display_blanked          |-> FALSE,
    cpu_temp_meter               |-> TRUE,
    cpu_load_meter               |-> TRUE,
    center_button                |-> TRUE,
    time_label                   |-> TRUE,
    boot_animation_container     |-> FALSE,
    backlight                    |-> TRUE,
    cpu_temp_current_value       |-> 30,
    cpu_load_current_value       |-> 30,
    trace                        |-> << >> ]

\* ------------------------------------------------------------------------
\* History kept for the properties
\* ------------------------------------------------------------------------

RECURSIVE Count(_, _)
Count(seq, name) ==
  IF seq = << >> THEN 0
  ELSE (IF Head(seq) = name THEN 1 ELSE 0) + Count(Tail(seq), name)

Channels == {"temp", "load"}

HideName(c) == IF c = "temp" THEN "ui_hide_cpu_temp_meter" ELSE "ui_hide_cpu_load_meter"

ShowName(c) == IF c = "temp" THEN "ui_show_cpu_temp_meter" ELSE "ui_show_cpu_load_meter"

Fresh(s) == [s EXCEPT !.trace = << >>]

\* the totals after a call with the effects in trace
Tally(t, trace) ==
  [blank      |-> t.blank + Count(trace, "ui_blank_entire_display"),
   power_off  |-> t.power_off + Count(trace, "backlight_off"),
   first_data |-> t.first_data + Count(trace, "hide_boot_animation")]

\* zero-run age after an ingest of value v that ended dt ms after it began
AgeAfterIngest(age, v, dt) ==
  IF v # 0 THEN -1 ELSE IF age = -1 THEN 0 ELSE age + dt

AgeAfter(age, dt) == IF age = -1 THEN -1 ELSE age + dt

\* a call into the controller: its kind, its arguments, the reading of millis()
Ev(kind, cpu_temp, cpu_load, at) == <<kind, cpu_temp, cpu_load, at>>

Scenario9Ingest ==
  << Ev("ingest", 0, 5, U32(0)), Ev("ingest", 0, 5, U32(59999)),
     Ev("ingest", 0, 5, U32(60000)), Ev("ingest", 3, 5, U32(60001)) >>

Scenario9Periodic ==
  << Ev("ingest", 0, 5, U32(0)), Ev("ingest", 0, 5, U32(59999)),
     Ev("periodic", -1, -1, U32(60000)), Ev("ingest", 3, 5, U32(60001)) >>

Scenario10(cpu_temp, cpu_load) ==
  << Ev("ingest", cpu_temp, cpu_load, U32(0)),
     Ev("periodic", -1, -1, U32(60000)), Ev("periodic", -1, -1, U32(70000)) >>

Scenarios ==
  {Scenario9Ingest, Scenario9Periodic}
    \cup {Scenario10(t, l) : t \in TempValues, l \in LoadValues}

Off == << Ev("off", -1, -1, U32Zero) >>

IsPrefix(h, s) == Len(h) <= Len(s) /\ h = SubSeq(s, 1, Len(h))

\* the history after the call ev, made with the clock skew given
Follow(h, ev, skew) ==
  IF h # Off /\ skew = 0 /\ \E s \in Scenarios : IsPrefix(Append(h, ev), s)
    THEN Append(h, ev)
    ELSE Off

\* ------------------------------------------------------------------------
\* Actions
\* ------------------------------------------------------------------------

Init ==
  /\ m = system_manager_init
  /\ clock \in StartTimes
  /\ ticks = 0
  /\ op = "init"
  /\ args = <<-1, -1>>
  /\ zeroAge = [c \in Channels |-> -1]
  /\ hides = [c \in Channels |-> 0]
  /\ totals = [blank |-> 0, power_off |-> 0, first_data |-> 0]
  /\ recvAge = -1
  /\ report = << >>
  /\ pc = "serial"
  /\ twin = system_manager_init
  /\ lv_tick = 0
  /\ quiet = system_manager_init
  /\ history = << >>

\* a call of system_process_data(cpu_temp, cpu_load) that took skew ms has
\* left the record r
Reception(r, cpu_temp, cpu_load, skew) ==
  /\ skew = 0 \/ ticks < MaxTicks
  /\ LET v == [c \in Channels |-> IF c = "temp" THEN cpu_temp ELSE cpu_load]
     IN  /\ m' = r
         /\ clock' = U32Add(clock, skew)
         /\ ticks' = ticks + (IF skew > 0 THEN 1 ELSE 0)
         /\ op' = "ingest"
         /\ args' = <<cpu_temp, cpu_load>>
         /\ zeroAge' = [c \in Channels |-> AgeAfterIngest(zeroAge[c], v[c], skew)]
         /\ hides' = [c \in Channels |->
                        IF v[c] # 0 \/ zeroAge[c] = -1
                          THEN Count(r.trace, HideName(c))
                          ELSE hides[c] + Count(r.trace, HideName(c))]
         /\ history' = Follow(history, Ev("ingest", cpu_temp, cpu_load, clock), skew)
         /\ recvAge' = skew
         /\ report' = << >>
         /\ totals' = Tally(totals, r.trace)

\* system_process_data is called
Ingest(cpu_temp, cpu_load, skew) ==
  /\ Reception(system_process_data(Fresh(m), cpu_temp, cpu_load, clock, U32Add(clock, skew)),
               cpu_temp, cpu_load, skew)
  /\ UNCHANGED <<pc, twin, lv_tick, quiet>>

\* a call of system_periodic_update that took skew ms
Maintenance(skew) ==
  /\ skew = 0 \/ ticks < MaxTicks
  /\ LET now1 == clock
         now2 == U32Add(clock, skew)
         r    == system_periodic_update(Fresh(m), now1, now2)
     IN  /\ m' = r
         /\ clock' = now2
         /\ ticks' = ticks + (IF skew > 0 THEN 1 ELSE 0)
         /\ op' = "periodic"
         /\ zeroAge' = [c \in Channels |-> AgeAfter(zeroAge[c], skew)]
         /\ hides' = [c \in Channels |-> hides[c] + Count(r.trace, HideName(c))]
         /\ totals' = Tally(totals, r.trace)
         /\ history' = Follow(history, Ev("periodic", -1, -1, clock), skew)
         /\ recvAge' = AgeAfter(recvAge, skew)
         /\ report' = << >>
         /\ UNCHANGED args

\* system_periodic_update is called
PeriodicUpdate(skew) ==
  /\ Maintenance(skew)
  /\ UNCHANGED <<pc, twin, lv_tick, quiet>>

\* a caller asks for system_get_status
GetStatus ==
  LET r == system_get_status(Fresh(m), clock)
  IN  /\ m' = r.state
      /\ report' = << r.report >>
      /\ op' = "status"
      /\ totals' = Tally(totals, r.state.trace)
      /\ hides' = [c \in Channels |-> hides[c] + Count(r.state.trace, HideName(c))]
      /\ UNCHANGED <<clock, ticks, args, zeroAge, recvAge, history, pc, twin, lv_tick, quiet>>

\* d ms pass
Elapse(d) ==
  /\ ticks < MaxTicks
  /\ clock' = U32Add(clock, d)
  /\ ticks' = ticks + 1
  /\ m' = Fresh(m)
  /\ op' = "advance"
  /\ zeroAge' = [c \in Channels |-> AgeAfter(zeroAge[c], d)]
  /\ recvAge' = AgeAfter(recvAge, d)
  /\ report' = << >>
  /\ UNCHANGED <<args, hides, totals, history>>

\* time passes between two calls into the controller
Advance(d) ==
  /\ Elapse(d)
  /\ UNCHANGED <<pc, twin, lv_tick, quiet>>

Next ==
  \/ \E t \in TempValues, l \in LoadValues, k \in Skews : Ingest(t, l, k)
  \/ \E k \in Skews : PeriodicUpdate(k)
  \/ GetStatus
  \/ \E d \in Steps : Advance(d)

Spec == Init /\ [][Next]_vars

\* loop() with system_periodic_update inside the Serial.available() branch
LoopNoData_skips_periodic ==
  /\ pc = "serial"
  /\ m' = loop_serial(Fresh(m), FALSE, FALSE, 0, 0, clock, clock)
  /\ op' = "no_data"
  /\ report' = << >>
  /\ pc' = "delay"
  /\ UNCHANGED <<twin, lv_tick, quiet>>
  /\ UNCHANGED <<clock, ticks, args, zeroAge, hides, totals, recvAge, history>>

\* loop(): Serial.available() is false
LoopNoData ==
  /\ pc = "serial"
  /\ m' = loop_serial(Fresh(m), FALSE, FALSE, 0, 0, clock, clock)
  /\ op' = "no_data"
  /\ report' = << >>
  /\ pc' = "periodic"
  /\ UNCHANGED <<twin, lv_tick, quiet>>
  /\ UNCHANGED <<clock, ticks, args, zeroAge, hides, totals, recvAge, history>>

\* loop(): a line was read and deserializeJson returned an error
LoopParseError ==
  /\ pc = "serial"
  /\ m' = loop_serial(Fresh(m), TRUE, TRUE, 0, 0, clock, clock)
  /\ op' = "parse_error"
  /\ report' = << >>
  /\ pc' = "periodic"
  /\ UNCHANGED <<twin, lv_tick, quiet>>
  /\ UNCHANGED <<clock, ticks, args, zeroAge, hides, totals, recvAge, history>>

\* loop(): a line was read and parsed into cpu_temp and cpu_load
LoopRecord(cpu_temp, cpu_load, skew) ==
  /\ pc = "serial"
  /\ Reception(loop_serial(Fresh(m), TRUE, FALSE, cpu_temp, cpu_load, clock, U32Add(clock, skew)),
               cpu_temp, cpu_load, skew)
  /\ pc' = "periodic"
  /\ UNCHANGED <<twin, lv_tick, quiet>>

\* loop(): system_periodic_update
LoopPeriodic(skew) ==
  /\ pc = "periodic"
  /\ Maintenance(skew)
  /\ pc' = "delay"
  /\ UNCHANGED <<twin, lv_tick, quiet>>

\* loop(): lv_timer_handler and delay, then the next iteration
LoopDelay(d) ==
  /\ pc = "delay"
  /\ Elapse(d)
  /\ pc' = "serial"
  /\ UNCHANGED <<twin, lv_tick, quiet>>

LoopNext ==
  \/ LoopNoData
  \/ LoopParseError
  \/ \E t \in TempValues, l \in LoadValues, k \in Skews : LoopRecord(t, l, k)
  \/ \E k \in Skews : LoopPeriodic(k)
  \/ \E d \in Steps : LoopDelay(d)

LoopSpec == Init /\ [][LoopNext]_vars

\* system_process_data is called; the same call is made on a controller
\* whose clock is ClockShift ahead
ShiftIngest(cpu_temp, cpu_load, skew) ==
  /\ Reception(system_process_data(Fresh(m), cpu_temp, cpu_load, clock, U32Add(clock, skew)),
               cpu_temp, cpu_load, skew)
  /\ twin' = system_process_data(Fresh(twin), cpu_temp, cpu_load,
                                 U32Add(clock, ClockShift),
                                 U32Add(U32Add(clock, skew), ClockShift))
  /\ UNCHANGED <<pc, lv_tick, quiet>>

\* system_periodic_update is called on both controllers
ShiftPeriodic(skew) ==
  /\ Maintenance(skew)
  /\ twin' = system_periodic_update(Fresh(twin), U32Add(clock, ClockShift),
                                    U32Add(U32Add(clock, skew), ClockShift))
  /\ UNCHANGED <<pc, lv_tick, quiet>>

\* time passes for both controllers
ShiftAdvance(d) ==
  /\ Elapse(d)
  /\ twin' = Fresh(twin)
  /\ UNCHANGED <<pc, lv_tick, quiet>>

ShiftNext ==
  \/ \E t \in TempValues, l \in LoadValues, k \in Skews : ShiftIngest(t, l, k)
  \/ \E k \in Skews : ShiftPeriodic(k)
  \/ \E d \in Steps : ShiftAdvance(d)

ShiftSpec == Init /\ [][ShiftNext]_vars

\* ------------------------------------------------------------------------
\* loop() interleaved with the LVGL timer interrupt (display_driver.cpp)
\* ------------------------------------------------------------------------

\* lvgl_timer_interrupt_handler that also stamps the reception time
lvgl_timer_interrupt_handler_stamps(s, tick) ==
  [state   |-> [s EXCEPT !.sys_last_data_received_time = U32Add(@, 1)],
   lv_tick |-> tick + 1]

\* the interrupt service routine: lv_tick_inc(1)
lvgl_timer_interrupt_handler(s, tick) ==
  [state |-> s, lv_tick |-> tick + 1]

\* system_process_data up to the call of system_update_meter_values
system_process_data_reception(s, now) ==
  LET s1 == [Call(s, "stamp") EXCEPT !.sys_last_data_received_time = now]
      s2 == IF ~s1.sys_first_data_received THEN system_handle_first_data(s1) ELSE s1
  IN  IF s2.sys_display_blanked THEN system_show_entire_display(s2) ELSE s2

\* the rest of the record's handling: system_update_meter_values and the
\* needle and time label updates of loop()
loop_serial_meters(s, cpu_temp, cpu_load, now) ==
  LET p == system_update_meter_values(s, cpu_temp, cpu_load, now)
      a == IF ~p.sys_cpu_temp_meter_hidden
             THEN update_meter_needle_animated(p, "cpu_temp_meter", cpu_temp) ELSE p
      b == IF ~a.sys_cpu_load_meter_hidden
             THEN update_meter_needle_animated(a, "cpu_load_meter", cpu_load) ELSE a
  IN  IF p.sys_display_blanked THEN p ELSE Call(b, "lv_label_set_text")

\* what the loop with the interrupt leaves alone
TickFrame == UNCHANGED <<zeroAge, hides, totals, twin, report, recvAge, history>>

\* the timer interrupt fires
TickInterrupt ==
  /\ lv_tick < MaxLvTicks
  /\ LET r == lvgl_timer_interrupt_handler(m, lv_tick)
     IN  /\ m' = r.state
         /\ lv_tick' = r.lv_tick
  /\ op' = "tick"
  /\ TickFrame
  /\ UNCHANGED <<clock, ticks, args, pc, quiet>>

\* loop(): Serial.available() is false, or the line did not parse
TickNoRecord(error) ==
  /\ pc = "serial"
  /\ m' = loop_serial(Fresh(m), error, error, 0, 0, clock, clock)
  /\ quiet' = loop_serial(Fresh(quiet), error, error, 0, 0, clock, clock)
  /\ op' = IF error THEN "parse_error" ELSE "no_data"
  /\ pc' = "periodic"
  /\ TickFrame
  /\ UNCHANGED <<clock, ticks, args, lv_tick>>

\* loop(): a record was parsed and system_process_data has run up to the
\* call of system_update_meter_values
TickRecordBegin(cpu_temp, cpu_load) ==
  /\ pc = "serial"
  /\ m' = system_process_data_reception(Fresh(m), clock)
  /\ args' = <<cpu_temp, cpu_load>>
  /\ op' = "ingest"
  /\ pc' = "meters"
  /\ TickFrame
  /\ UNCHANGED <<clock, ticks, lv_tick, quiet>>

\* loop(): the rest of the record's handling
TickRecordEnd ==
  /\ pc = "meters"
  /\ m' = loop_serial_meters(m, args[1], args[2], clock)
  /\ quiet' = loop_serial(Fresh(quiet), TRUE, FALSE, args[1], args[2], clock, clock)
  /\ op' = "ingest"
  /\ pc' = "periodic"
  /\ TickFrame
  /\ UNCHANGED <<clock, ticks, args, lv_tick>>

\* loop(): system_periodic_update has run system_check_meter_hiding_conditions
TickPeriodicBegin ==
  /\ pc = "periodic"
  /\ m' = system_check_meter_hiding_conditions(Fresh(m), clock)
  /\ op' = "periodic"
  /\ pc' = "timeout"
  /\ TickFrame
  /\ UNCHANGED <<clock, ticks, args, lv_tick, quiet>>

\* loop(): system_periodic_update runs system_check_data_timeout
TickPeriodicEnd ==
  /\ pc = "timeout"
  /\ m' = system_check_data_timeout(m, clock)
  /\ quiet' = system_periodic_update(Fresh(quiet), clock, clock)
  /\ op' = "periodic"
  /\ pc' = "delay"
  /\ TickFrame
  /\ UNCHANGED <<clock, ticks, args, lv_tick>>

\* loop(): lv_timer_handler and delay, then the next iteration
TickDelay(d) ==
  /\ pc = "delay"
  /\ ticks < MaxTicks
  /\ clock' = U32Add(clock, d)
  /\ ticks' = ticks + 1
  /\ m' = Fresh(m)
  /\ quiet' = Fresh(quiet)
  /\ op' = "advance"
  /\ pc' = "serial"
  /\ TickFrame
  /\ UNCHANGED <<args, lv_tick>>

TickNext ==
  \/ TickInterrupt
  \/ \E e \in BOOLEAN : TickNoRecord(e)
  \/ \E t \in TempValues, l \in LoadValues : TickRecordBegin(t, l)
  \/ TickRecordEnd
  \/ TickPeriodicBegin
  \/ TickPeriodicEnd
  \/ \E d \in Steps : TickDelay(d)

TickSpec == Init /\ [][TickNext]_vars

\* system_manager_init that leaves the blanked flag as it was
system_manager_init_from_keeps_blanked(s) ==
  [s EXCEPT !.sys_last_data_received_time  = U32Zero,
            !.sys_first_data_received      = FALSE,
            !.sys_cpu_temp_zero_start_time = U32Zero,
            !.sys_cpu_load_zero_start_time = U32Zero,
            !.sys_cpu_temp_meter_hidden    = FALSE,
            !.sys_cpu_load_meter_hidden    = FALSE,
            !.sys_last_cpu_temp            = -1,
            !.sys_last_cpu_load            = -1]

\* a call of system_manager_init in the state s
system_manager_init_from(s) ==
  [s EXCEPT !.sys_last_data_received_time  = U32Zero,
            !.sys_first_data_received      = FALSE,
            !.sys_cpu_temp_zero_start_time = U32Zero,
            !.sys_cpu_load_zero_start_time = U32Zero,
            !.sys_cpu_temp_meter_hidden    = FALSE,
            !.sys_cpu_load_meter_hidden    = FALSE,
            !.sys_last_cpu_temp            = -1,
            !.sys_last_cpu_load            = -1,
            !.sys_display_blanked          = FALSE]

\* the globals of system_manager.cpp in the state s
Globals(s) ==
  [ sys_last_data_received_time  |-> s.sys_last_data_received_time,
    sys_first_data_received      |-> s.sys_first_data_received,
    sys_cpu_temp_zero_start_time |-> s.sys_cpu_temp_zero_start_time,
    sys_cpu_load_zero_start_time |-> s.sys_cpu_load_zero_start_time,
    sys_cpu_temp_meter_hidden    |-> s.sys_cpu_temp_meter_hidden,
    sys_cpu_load_meter_hidden    |-> s.sys_cpu_load_meter_hidden,
    sys_last_cpu_temp            |-> s.sys_last_cpu_temp,
    sys_last_cpu_load            |-> s.sys_last_cpu_load,
    sys_display_blanked          |-> s.sys_display_blanked ]

\* the widget flags, the needle values and the backlight in the state s
Devices(s) ==
  <<s.cpu_temp_meter, s.cpu_load_meter, s.center_button, s.time_label,
    s.boot_animation_container, s.backlight,
    s.cpu_temp_current_value, s.cpu_load_current_value>>

\* ------------------------------------------------------------------------
\* Views of the state used by the properties
\* ------------------------------------------------------------------------

Hidden(s, c) ==
  IF c = "temp" THEN s.sys_cpu_temp_meter_hidden ELSE s.sys_cpu_load_meter_hidden

ZeroStart(s, c) ==
  IF c = "temp" THEN s.sys_cpu_temp_zero_start_time ELSE s.sys_cpu_load_zero_start_time

LastValue(s, c) == IF c = "temp" THEN s.sys_last_cpu_temp ELSE s.sys_last_cpu_load

\* LV_OBJ_FLAG_HIDDEN of the channel's meter widget
WidgetHidden(s, c) == IF c = "temp" THEN s.cpu_temp_meter ELSE s.cpu_load_meter

Arg(a, c) == IF c = "temp" THEN a[1] ELSE a[2]

Other(c) == IF c = "temp" THEN "load" ELSE "temp"

Values(c) == IF c = "temp" THEN TempValues ELSE LoadValues

\* the state s with channel c's last value, zero start time and hidden flag replaced
WithChannel(s, c, last, zero_start, hidden) ==
  IF c = "temp"
    THEN [s EXCEPT !.sys_last_cpu_temp = last,
                   !.sys_cpu_temp_zero_start_time = zero_start,
                   !.sys_cpu_temp_meter_hidden = hidden]
    ELSE [s EXCEPT !.sys_last_cpu_load = last,
                   !.sys_cpu_load_zero_start_time = zero_start,
                   !.sys_cpu_load_meter_hidden = hidden]

\* channel c's part of the controller state
ChannelState(s, c) == <<LastValue(s, c), ZeroStart(s, c), Hidden(s, c)>>

\* the state that belongs to no channel
ReceptionState(s) ==
  <<s.sys_first_data_received, s.sys_last_data_received_time, s.sys_display_blanked>>

\* the hide and show calls of channel c among the effects of the last call
ChannelTrace(s, c) == SelectSeq(s.trace, LAMBDA n : n \in {HideName(c), ShowName(c)})

\* 0 for zero and 1 for every other value
NonZero(v) == IF v = 0 THEN 0 ELSE 1

\* the state s with both last values replaced by NonZero of them
LastAsNonZero(s) ==
  [s EXCEPT !.sys_last_cpu_temp = NonZero(@), !.sys_last_cpu_load = NonZero(@)]

\* the state s with every non-zero last value replaced by x
LastReplaced(s, x) ==
  [s EXCEPT !.sys_last_cpu_temp = IF @ = 0 THEN 0 ELSE x,
            !.sys_last_cpu_load = IF @ = 0 THEN 0 ELSE x]

\* system_process_data with the value v for channel c and w for the other
ProcessChannel(s, c, v, w, now1, now2) ==
  IF c = "temp" THEN system_process_data(s, v, w, now1, now2)
                ELSE system_process_data(s, w, v, now1, now2)

Invoked(s, name) == Count(s.trace, name) > 0

\* ------------------------------------------------------------------------
\* C1
\* ------------------------------------------------------------------------

\* C1: in a run of zero-valued ingests of a channel, an ingest that comes
\* hide_timeout or more after the first zero of the run leaves the channel
\* hidden with the hide capability invoked exactly once since the run began;
\* hide is never invoked more than once in a run, and never while less than
\* hide_timeout has passed since the first zero of the run.
C1_HideOncePerZeroRun ==
  [][\A c \in Channels :
       /\ (op' = "ingest" /\ Arg(args', c) = 0 /\ zeroAge'[c] >= METER_HIDE_TIMEOUT_MS)
            => (Hidden(m', c) /\ hides'[c] = 1)
       /\ hides'[c] <= 1
       /\ Invoked(m', HideName(c))
            => /\ zeroAge[c] # -1
               /\ (IF op' = "periodic" THEN zeroAge[c] ELSE zeroAge'[c])
                     >= METER_HIDE_TIMEOUT_MS]_vars

\* a zero-valued ingest, hide_timeout after the first zero of its run, hides the temperature meter
C1_Witness ==
  /\ op = "ingest"
  /\ args[1] = 0
  /\ zeroAge["temp"] >= METER_HIDE_TIMEOUT_MS
  /\ Invoked(m, "ui_hide_cpu_temp_meter")
  /\ hides["temp"] = 1

\* ------------------------------------------------------------------------
\* C2
\* ------------------------------------------------------------------------

\* C2: after an ingest that restored the blanked display, a channel whose
\* hidden flag is true has its gauge not visible (the widget still carries
\* LV_OBJ_FLAG_HIDDEN).
C2_RestoreKeepsHiddenGauges ==
  \A c \in Channels :
    (op = "ingest" /\ Invoked(m, "ui_show_entire_display") /\ Hidden(m, c))
      => WidgetHidden(m, c)

\* ------------------------------------------------------------------------
\* C3
\* ------------------------------------------------------------------------

\* C3: a system_periodic_update that runs while a channel's last value is
\* zero and hide_timeout or more has passed since the zero run began leaves
\* the channel hidden, whatever the clock reading at which the run began.
C3_PeriodicHidesAfterTimeout ==
  [][\A c \in Channels :
       (op' = "periodic" /\ LastValue(m, c) = 0 /\ zeroAge[c] >= METER_HIDE_TIMEOUT_MS)
         => Hidden(m', c)]_vars

\* ------------------------------------------------------------------------
\* C4
\* ------------------------------------------------------------------------

\* C4: a system_periodic_update that runs after first data, while the display
\* is not blanked and the wrap-safe time since the last reception is at least
\* blank_timeout, blanks the display: blank and power-off are invoked and
\* the blanked flag is set, whatever the value of the reception timestamp.
C4_PeriodicBlanksAfterTimeout ==
  [][(/\ op' = "periodic"
      /\ m.sys_first_data_received
      /\ ~m.sys_display_blanked
      /\ U32Geq(U32Sub(clock', m.sys_last_data_received_time), DISPLAY_BLANK_TIMEOUT_MS))
       => /\ m'.sys_display_blanked
          /\ Invoked(m', "ui_blank_entire_display")
          /\ Invoked(m', "backlight_off")]_vars

\* ------------------------------------------------------------------------
\* C5
\* ------------------------------------------------------------------------

\* C5: while no telemetry has been received the display is not blanked, the
\* backlight is on, and neither blank nor power-off has ever been invoked.
C5_NoBlankBeforeFirstData ==
  ~m.sys_first_data_received
    => /\ ~m.sys_display_blanked
       /\ m.backlight
       /\ totals.blank = 0
       /\ totals.power_off = 0

\* system_periodic_update has run without any telemetry, blank_timeout after
\* start and with the clock wrapped to 0
C5_Witness ==
  /\ ~m.sys_first_data_received
  /\ op = "periodic"
  /\ ticks >= 2
  /\ clock = U32Zero
  /\ ~m.sys_display_blanked

\* ------------------------------------------------------------------------
\* C6
\* ------------------------------------------------------------------------

\* C6: after every ingest the display is not blanked, and an ingest that
\* began with the display blanked invoked restore-display and power-on
\* exactly once each.
C6_IngestUnblanks ==
  [][op' = "ingest"
       => /\ ~m'.sys_display_blanked
          /\ m.sys_display_blanked
               => /\ Count(m'.trace, "ui_show_entire_display") = 1
                  /\ Count(m'.trace, "backlight_on") = 1]_vars

\* an ingest has restored a blanked display while a channel stays hidden
C6_Witness ==
  /\ op = "ingest"
  /\ Invoked(m, "ui_show_entire_display")
  /\ Invoked(m, "backlight_on")
  /\ ~m.sys_display_blanked
  /\ m.sys_cpu_temp_meter_hidden

\* ------------------------------------------------------------------------
\* C7
\* ------------------------------------------------------------------------

\* place of an effect in the order of system_process_data
Rank(name) ==
  CASE name = "stamp"                  -> 0
    [] name = "hide_boot_animation"    -> 1
    [] name = "ui_show_entire_display" -> 2
    [] name = "backlight_on"           -> 3
    [] OTHER                           -> 4

ChannelCalls == {HideName(c) : c \in Channels} \cup {ShowName(c) : c \in Channels}

\* C7: the effects of one ingest come in the order reception timestamp,
\* first-data signal, display restore, power-on, channel hide/show; the
\* timestamp is written exactly once and first, and no channel hide or show
\* precedes the restore of the same ingest.
C7_IngestOrder ==
  op = "ingest"
    => /\ Len(m.trace) >= 1
       /\ m.trace[1] = "stamp"
       /\ Count(m.trace, "stamp") = 1
       /\ \A i, j \in 1..Len(m.trace) :
            i < j => Rank(m.trace[i]) <= Rank(m.trace[j])
       /\ \A i \in 1..Len(m.trace) :
            Rank(m.trace[i]) = 4 => m.trace[i] \in ChannelCalls

\* one ingest restored the display and then hid or showed a channel
C7_Witness ==
  /\ op = "ingest"
  /\ Invoked(m, "ui_show_entire_display")
  /\ \E i \in 1..Len(m.trace) : m.trace[i] \in ChannelCalls

\* ------------------------------------------------------------------------
\* C8
\* ------------------------------------------------------------------------

\* C8: an ingest with a non-zero value for a channel leaves the channel not
\* hidden and its zero timer cleared, and invokes the channel's show
\* capability exactly when the channel was hidden before the call.
C8_NonZeroShows ==
  [][\A c \in Channels :
       (op' = "ingest" /\ Arg(args', c) # 0)
         => /\ ~Hidden(m', c)
            /\ ZeroStart(m', c) = U32Zero
            /\ Count(m'.trace, ShowName(c)) = (IF Hidden(m, c) THEN 1 ELSE 0)]_vars

\* a non-zero temperature has brought back the hidden temperature meter
C8_Witness ==
  /\ op = "ingest"
  /\ args[1] # 0
  /\ Invoked(m, "ui_show_cpu_temp_meter")
  /\ ~m.sys_cpu_temp_meter_hidden
  /\ m.sys_cpu_temp_zero_start_time = U32Zero

\* ------------------------------------------------------------------------
\* C9
\* ------------------------------------------------------------------------

\* C9: with hide_timeout = 60000, after ingest (0,5) at 0 and ingest (0,5) at
\* 59999 the temperature channel is not hidden; after a further ingest (0,5)
\* at 60000, or instead a system_periodic_update at 60000, it is hidden;
\* after a following ingest (3,5) at 60001 it is visible again and its zero
\* timer is cleared.
C9_HideScenario ==
  /\ history = SubSeq(Scenario9Ingest, 1, 2) => ~m.sys_cpu_temp_meter_hidden
  /\ history = SubSeq(Scenario9Ingest, 1, 3) => m.sys_cpu_temp_meter_hidden
  /\ history = SubSeq(Scenario9Periodic, 1, 3) => m.sys_cpu_temp_meter_hidden
  /\ history \in {Scenario9Ingest, Scenario9Periodic}
       => /\ ~m.sys_cpu_temp_meter_hidden
          /\ ~m.cpu_temp_meter
          /\ m.sys_cpu_temp_zero_start_time = U32Zero

\* ------------------------------------------------------------------------
\* C10
\* ------------------------------------------------------------------------

\* C10: with blank_timeout = 60000, after a first ingest at 0 and no further
\* ingest, system_periodic_update at 60000 blanks the display, and blank and
\* power-off have each been invoked exactly once, also after a second
\* system_periodic_update at 70000.
C10_BlankScenario ==
  \A t \in TempValues, l \in LoadValues :
    /\ history = SubSeq(Scenario10(t, l), 1, 1) => m.sys_first_data_received
    /\ history \in {SubSeq(Scenario10(t, l), 1, 2), Scenario10(t, l)}
         => /\ m.sys_display_blanked
            /\ totals.blank = 1
            /\ totals.power_off = 1

\* ------------------------------------------------------------------------
\* C11
\* ------------------------------------------------------------------------

\* C11: from every reachable state, a second and a third
\* system_periodic_update at the same clock reading as the first, with no
\* ingest in between, invoke no capability and leave the state as the first
\* call left it.
C11_PeriodicIdempotent ==
  LET r1 == system_periodic_update(Fresh(m), clock, clock)
      r2 == system_periodic_update(Fresh(r1), clock, clock)
      r3 == system_periodic_update(Fresh(r2), clock, clock)
  IN  /\ r2.trace = << >>
      /\ r2 = Fresh(r1)
      /\ r3.trace = << >>
      /\ r3 = Fresh(r1)

\* a system_periodic_update has just hidden a meter and blanked the display,
\* and the call repeated at the same clock reading does nothing
C11_Witness ==
  /\ op = "periodic"
  /\ Invoked(m, "ui_hide_cpu_temp_meter")
  /\ Invoked(m, "ui_blank_entire_display")
  /\ system_periodic_update(Fresh(m), clock, clock) = Fresh(m)

\* ------------------------------------------------------------------------
\* C12
\* ------------------------------------------------------------------------

\* C12: the time since the last reception and the time since a zero run
\* began, computed by unsigned subtraction from the stored timestamp, equal
\* the true number of milliseconds that have passed, also when the clock has
\* wrapped in between, and compared with the timeouts they give the answer
\* of an unbounded clock.
C12_WrapSafeElapsed ==
  /\ recvAge # -1
       => /\ U32Sub(clock, m.sys_last_data_received_time) = U32(recvAge)
          /\ U32Geq(U32Sub(clock, m.sys_last_data_received_time), DISPLAY_BLANK_TIMEOUT_MS)
               <=> recvAge >= DISPLAY_BLANK_TIMEOUT_MS
  /\ \A c \in Channels :
       zeroAge[c] # -1
         => /\ U32Sub(clock, ZeroStart(m, c)) = U32(zeroAge[c])
            /\ U32Geq(U32Sub(clock, ZeroStart(m, c)), METER_HIDE_TIMEOUT_MS)
                 <=> zeroAge[c] >= METER_HIDE_TIMEOUT_MS

\* the clock has wrapped since the reception and the start of the zero run:
\* its reading is numerically below both stored timestamps
C12_Witness ==
  /\ recvAge >= DISPLAY_BLANK_TIMEOUT_MS
  /\ zeroAge["temp"] >= METER_HIDE_TIMEOUT_MS
  /\ clock[1] < m.sys_last_data_received_time[1]
  /\ clock[1] < m.sys_cpu_temp_zero_start_time[1]
  /\ U32Sub(clock, m.sys_cpu_temp_zero_start_time) = U32(zeroAge["temp"])

\* ------------------------------------------------------------------------
\* C13
\* ------------------------------------------------------------------------

\* C13: the first-data signal (hide_boot_animation) has been emitted exactly
\* once when telemetry has been received and never before; it is emitted
\* only by an ingest that began with no telemetry received, never by a later
\* ingest or a system_periodic_update; the first-data flag, once true, stays
\* true.
C13_FirstDataOnce ==
  [][/\ totals'.first_data = (IF m'.sys_first_data_received THEN 1 ELSE 0)
     /\ m.sys_first_data_received => m'.sys_first_data_received
     /\ Invoked(m', "hide_boot_animation")
          => /\ op' = "ingest"
             /\ ~m.sys_first_data_received
             /\ Count(m'.trace, "hide_boot_animation") = 1
     /\ (op' = "ingest" /\ ~m.sys_first_data_received)
          => Invoked(m', "hide_boot_animation")]_vars

\* a later ingest, after the display was blanked and with the boot
\* animation long dismissed, has not emitted the signal again
C13_Witness ==
  /\ op = "ingest"
  /\ Invoked(m, "ui_show_entire_display")
  /\ ~Invoked(m, "hide_boot_animation")
  /\ totals.first_data = 1
  /\ m.boot_animation_container

\* ------------------------------------------------------------------------
\* C14
\* ------------------------------------------------------------------------

\* C14: as long as no ingest has occurred, no value has been observed for
\* either channel, neither channel is hidden and the hide capability has
\* never been invoked, whatever number of system_periodic_update calls ran.
C14_NoHideBeforeValue ==
  recvAge = -1
    => \A c \in Channels :
         /\ LastValue(m, c) = -1
         /\ ~Hidden(m, c)
         /\ hides[c] = 0
         /\ ~Invoked(m, HideName(c))

\* system_periodic_update has run hide_timeout after start with no ingest
C14_Witness ==
  /\ recvAge = -1
  /\ op = "periodic"
  /\ clock = U32(METER_HIDE_TIMEOUT_MS)
  /\ ~m.sys_cpu_temp_meter_hidden
  /\ ~m.sys_cpu_load_meter_hidden

\* ------------------------------------------------------------------------
\* C15
\* ------------------------------------------------------------------------

\* C15: after every call the backlight is off exactly when the display is
\* blanked; power-off is invoked exactly in the calls that blank the display,
\* together with the blank capability, and power-on exactly in the calls
\* that restore it, together with the restore capability.
C15_PowerFollowsBlanked ==
  [][/\ m.backlight = ~m.sys_display_blanked
     /\ m'.backlight = ~m'.sys_display_blanked
     /\ Count(m'.trace, "backlight_off") = Count(m'.trace, "ui_blank_entire_display")
     /\ Count(m'.trace, "backlight_off")
          = (IF ~m.sys_display_blanked /\ m'.sys_display_blanked THEN 1 ELSE 0)
     /\ Count(m'.trace, "backlight_on") = Count(m'.trace, "ui_show_entire_display")
     /\ Count(m'.trace, "backlight_on")
          = (IF m.sys_display_blanked /\ ~m'.sys_display_blanked THEN 1 ELSE 0)]_vars

\* a system_periodic_update has blanked the display and switched the
\* backlight off
C15_Witness ==
  /\ op = "periodic"
  /\ Invoked(m, "backlight_off")
  /\ m.sys_display_blanked
  /\ ~m.backlight

\* ------------------------------------------------------------------------
\* C16
\* ------------------------------------------------------------------------

\* C16: in every reachable state, hide on a hidden channel, show on a
\* visible channel, blank while blanked and restore while not blanked invoke
\* no UI or power capability and change nothing; each of the six operations
\* applied a second time right after itself does nothing.
C16_Idempotent ==
  LET f == Fresh(m)
  IN  /\ m.sys_cpu_temp_meter_hidden => system_hide_cpu_temp_meter(f) = f
      /\ ~m.sys_cpu_temp_meter_hidden => system_show_cpu_temp_meter(f) = f
      /\ m.sys_cpu_load_meter_hidden => system_hide_cpu_load_meter(f) = f
      /\ ~m.sys_cpu_load_meter_hidden => system_show_cpu_load_meter(f) = f
      /\ m.sys_display_blanked => system_blank_entire_display(f) = f
      /\ ~m.sys_display_blanked => system_show_entire_display(f) = f
      /\ system_hide_cpu_temp_meter(Fresh(system_hide_cpu_temp_meter(f)))
           = Fresh(system_hide_cpu_temp_meter(f))
      /\ system_show_cpu_temp_meter(Fresh(system_show_cpu_temp_meter(f)))
           = Fresh(system_show_cpu_temp_meter(f))
      /\ system_hide_cpu_load_meter(Fresh(system_hide_cpu_load_meter(f)))
           = Fresh(system_hide_cpu_load_meter(f))
      /\ system_show_cpu_load_meter(Fresh(system_show_cpu_load_meter(f)))
           = Fresh(system_show_cpu_load_meter(f))
      /\ system_blank_entire_display(Fresh(system_blank_entire_display(f)))
           = Fresh(system_blank_entire_display(f))
      /\ system_show_entire_display(Fresh(system_show_entire_display(f)))
           = Fresh(system_show_entire_display(f))

\* the temperature meter is hidden, the load meter is not, the display is
\* blanked: hide, show and blank each meet a state that already matches
C16_Witness ==
  /\ m.sys_cpu_temp_meter_hidden
  /\ ~m.sys_cpu_load_meter_hidden
  /\ m.sys_display_blanked
  /\ system_hide_cpu_temp_meter(Fresh(m)) = Fresh(m)
  /\ system_show_cpu_load_meter(Fresh(m)) = Fresh(m)
  /\ system_blank_entire_display(Fresh(m)) = Fresh(m)

\* ------------------------------------------------------------------------
\* C17
\* ------------------------------------------------------------------------

\* C17: a status report shows the "never" sentinel for the time since the
\* last reception exactly when no telemetry has been received, and shows
\* the true elapsed time since the last reception whenever telemetry has
\* been received, whatever the reception timestamp.
C17_StatusNeverSentinel ==
  op = "status"
    => /\ report[1].time_since_last_data.never <=> ~m.sys_first_data_received
       /\ m.sys_first_data_received
            => report[1].time_since_last_data.ms = U32(recvAge)

\* ------------------------------------------------------------------------
\* C18
\* ------------------------------------------------------------------------

\* C18: system_get_status leaves every variable of the controller, every
\* widget flag and the backlight as they were and invokes no capability.
C18_StatusPure ==
  [][op' = "status"
       => /\ m' = Fresh(m)
          /\ m'.trace = << >>
          /\ totals' = totals
          /\ hides' = hides]_vars

\* a status report has been taken of a blanked display with a hidden meter
C18_Witness ==
  /\ op = "status"
  /\ Len(report) = 1
  /\ report[1].display_blanked = "Yes"
  /\ report[1].cpu_temp_meter_hidden = "Yes"
  /\ report[1].time_since_last_data.never = FALSE
  /\ m.sys_display_blanked

\* ------------------------------------------------------------------------
\* C19
\* ------------------------------------------------------------------------

\* C19: a record that fails to parse does not reach the controller: the
\* step leaves the reception timestamp, the first-data flag, the blanked
\* flag, both channels' state, the widgets and the backlight unchanged and
\* makes no call, the time since the last reception keeps counting, and the
\* next step of the loop is system_periodic_update.
C19_ParseErrorFiltered ==
  [][/\ op' = "parse_error"
          => /\ m' = Fresh(m)
             /\ m'.trace = << >>
             /\ m'.sys_last_data_received_time = m.sys_last_data_received_time
             /\ m'.sys_first_data_received = m.sys_first_data_received
             /\ m'.sys_display_blanked = m.sys_display_blanked
             /\ \A c \in Channels :
                  /\ Hidden(m', c) = Hidden(m, c)
                  /\ ZeroStart(m', c) = ZeroStart(m, c)
                  /\ LastValue(m', c) = LastValue(m, c)
             /\ recvAge' = recvAge
             /\ clock' = clock
             /\ pc' = "periodic"
     /\ op = "parse_error" => op' = "periodic"]_vars

\* a record failed to parse while the display was blanked after a timeout
C19_Witness ==
  /\ op = "parse_error"
  /\ pc = "periodic"
  /\ m.sys_display_blanked
  /\ ~m.backlight
  /\ recvAge >= DISPLAY_BLANK_TIMEOUT_MS

\* ------------------------------------------------------------------------
\* C20
\* ------------------------------------------------------------------------

\* C20: on a zero-valued ingest the channel's zero start time becomes the
\* time read by that ingest when the previous value was non-zero or unset,
\* and is left as it was when the previous value was zero; the last value
\* becomes the ingested value in every ingest.
C20_TimerStartsAtTransition ==
  [][op' = "ingest"
       => \A c \in Channels :
            /\ LastValue(m', c) = Arg(args', c)
            /\ Arg(args', c) = 0 /\ LastValue(m, c) # 0
                 => ZeroStart(m', c) = clock'
            /\ Arg(args', c) = 0 /\ LastValue(m, c) = 0
                 => ZeroStart(m', c) = ZeroStart(m, c)]_vars

\* a zero ingest has continued the temperature's zero run, begun at least
\* 10000 ms earlier, and has begun the load's zero run
C20_Witness ==
  /\ op = "ingest"
  /\ args = <<0, 0>>
  /\ zeroAge["temp"] >= 10000
  /\ zeroAge["load"] = 0
  /\ ZeroStart(m, "temp") # clock
  /\ ZeroStart(m, "load") = clock
  /\ clock # U32Zero

\* ------------------------------------------------------------------------
\* C21
\* ------------------------------------------------------------------------

\* C21: between operations a channel's zero start time is set (differs from
\* the unset value 0 that system_check_meter_hiding_conditions tests for)
\* exactly when the channel's last value is zero, whatever the clock
\* reading at which the zero run began.
C21_ZeroStartSetIffZero ==
  \A c \in Channels :
    (ZeroStart(m, c) # U32Zero) <=> (LastValue(m, c) = 0)

\* ------------------------------------------------------------------------
\* C22
\* ------------------------------------------------------------------------

\* C22: every step in which the blanked flag goes from false to true is a
\* system_periodic_update taken after first data, at a time when the
\* wrap-safe difference to the reception timestamp, and the true time since
\* the last reception, are at least blank_timeout; a system_process_data
\* never leaves the display blanked and never invokes blank or power-off.
C22_BlankOnlyInPeriodic ==
  [][/\ (~m.sys_display_blanked /\ m'.sys_display_blanked)
          => /\ op' = "periodic"
             /\ m.sys_first_data_received
             /\ U32Geq(U32Sub(clock', m.sys_last_data_received_time),
                       DISPLAY_BLANK_TIMEOUT_MS)
             /\ recvAge' >= DISPLAY_BLANK_TIMEOUT_MS
     /\ op' = "ingest"
          => /\ ~m'.sys_display_blanked
             /\ ~Invoked(m', "ui_blank_entire_display")
             /\ ~Invoked(m', "backlight_off")]_vars

\* a system_periodic_update has just blanked the display
C22_Witness ==
  /\ op = "periodic"
  /\ m.sys_display_blanked
  /\ Invoked(m, "ui_blank_entire_display")
  /\ m.sys_first_data_received
  /\ recvAge >= DISPLAY_BLANK_TIMEOUT_MS

\* ------------------------------------------------------------------------
\* C23
\* ------------------------------------------------------------------------

\* C23: a channel's hidden flag goes from true to false only in a
\* system_process_data whose value for that channel is non-zero; a
\* system_periodic_update, a zero-valued ingest, time passing (the wrap of
\* the clock included), system_blank_entire_display and
\* system_show_entire_display leave a set flag set, and a
\* system_periodic_update leaves a set blanked flag set.
C23_HiddenClearedOnlyByNonZero ==
  [][\A c \in Channels :
       /\ (Hidden(m, c) /\ ~Hidden(m', c))
            => (op' = "ingest" /\ Arg(args', c) # 0)
       /\ (op' = "periodic" /\ m.sys_display_blanked) => m'.sys_display_blanked
       /\ Hidden(m, c)
            => /\ Hidden(system_blank_entire_display(m), c)
               /\ Hidden(system_show_entire_display(m), c)
               /\ Hidden(system_show_entire_display(system_blank_entire_display(m)), c)]_vars

\* a zero-valued ingest has restored the display and the temperature
\* channel, hidden before the blank, is still flagged hidden
C23_Witness ==
  /\ op = "ingest"
  /\ Arg(args, "temp") = 0
  /\ Invoked(m, "ui_show_entire_display")
  /\ Hidden(m, "temp")
  /\ ~Invoked(m, "ui_hide_cpu_temp_meter")

\* ------------------------------------------------------------------------
\* C24
\* ------------------------------------------------------------------------

\* C24: a system_periodic_update that runs after first data, with the
\* display not blanked and a zero-valued channel not hidden, at a time when
\* the channel's zero run has lasted hide_timeout or more and the last
\* reception is blank_timeout or more ago, invokes the channel's hide
\* before the blank and leaves the hidden flag and the blanked flag true.
C24_HideBeforeBlank ==
  [][\A c \in Channels :
       (/\ op' = "periodic"
        /\ m.sys_first_data_received
        /\ ~m.sys_display_blanked
        /\ ~Hidden(m, c)
        /\ LastValue(m, c) = 0
        /\ zeroAge[c] >= METER_HIDE_TIMEOUT_MS
        /\ recvAge' >= DISPLAY_BLANK_TIMEOUT_MS)
         => /\ Hidden(m', c)
            /\ m'.sys_display_blanked
            /\ \E i, j \in 1..Len(m'.trace) :
                 /\ i < j
                 /\ m'.trace[i] = HideName(c)
                 /\ m'.trace[j] = "ui_blank_entire_display"]_vars

\* ------------------------------------------------------------------------
\* C25
\* ------------------------------------------------------------------------

\* C25: a system_periodic_update leaves the first-data flag, the reception
\* timestamp, both last values and both zero start times as they were, and
\* every step that changes the first-data flag or the reception timestamp
\* is a system_process_data.
C25_PeriodicKeepsObservations ==
  [][/\ op' = "periodic"
          => /\ m'.sys_first_data_received = m.sys_first_data_received
             /\ m'.sys_last_data_received_time = m.sys_last_data_received_time
             /\ \A c \in Channels :
                  /\ LastValue(m', c) = LastValue(m, c)
                  /\ ZeroStart(m', c) = ZeroStart(m, c)
     /\ (\/ m'.sys_first_data_received # m.sys_first_data_received
         \/ m'.sys_last_data_received_time # m.sys_last_data_received_time)
          => op' = "ingest"]_vars

\* a system_periodic_update has hidden the temperature meter and blanked
\* the display while the zero timer and the reception timestamp are set
C25_Witness ==
  /\ op = "periodic"
  /\ Invoked(m, "ui_hide_cpu_temp_meter")
  /\ Invoked(m, "ui_blank_entire_display")
  /\ ZeroStart(m, "temp") # U32Zero
  /\ m.sys_last_data_received_time # U32Zero
  /\ LastValue(m, "temp") = 0

\* ------------------------------------------------------------------------
\* C26
\* ------------------------------------------------------------------------

\* C26: system_blank_entire_display and system_show_entire_display, applied
\* in any reachable state, leave the last value, the zero start time and
\* the hidden flag of both channels as they were; a system_periodic_update
\* that blanks leaves the last values and zero start times as they were and
\* changes a hidden flag only by hiding; and a zero-valued ingest that
\* restores the display in the middle of a zero run leaves the run's zero
\* start time as it was.
C26_BlankRestoreKeepChannels ==
  [][\A c \in Channels :
       /\ \A r \in {system_blank_entire_display(m), system_show_entire_display(m),
                    system_show_entire_display(system_blank_entire_display(m))} :
            /\ LastValue(r, c) = LastValue(m, c)
            /\ ZeroStart(r, c) = ZeroStart(m, c)
            /\ Hidden(r, c) = Hidden(m, c)
       /\ (op' = "periodic" /\ Invoked(m', "ui_blank_entire_display"))
            => /\ LastValue(m', c) = LastValue(m, c)
               /\ ZeroStart(m', c) = ZeroStart(m, c)
               /\ Hidden(m', c) # Hidden(m, c) => Invoked(m', HideName(c))
       /\ (/\ op' = "ingest"
           /\ Invoked(m', "ui_show_entire_display")
           /\ LastValue(m, c) = 0
           /\ Arg(args', c) = 0)
            => ZeroStart(m', c) = ZeroStart(m, c)]_vars

\* a zero-valued ingest has restored the display, and the temperature's
\* zero run, begun before the blank, still has its zero start time
C26_Witness ==
  /\ op = "ingest"
  /\ Invoked(m, "ui_show_entire_display")
  /\ Arg(args, "temp") = 0
  /\ zeroAge["temp"] >= DISPLAY_BLANK_TIMEOUT_MS
  /\ ZeroStart(m, "temp") # U32Zero
  /\ U32Sub(clock, ZeroStart(m, "temp")) = U32(zeroAge["temp"])

\* ------------------------------------------------------------------------
\* C27
\* ------------------------------------------------------------------------

\* C27: in every reachable state in which a channel's last value is zero,
\* and for the current clock reading and every later one by a step, a
\* system_process_data carrying zero for the channel leaves the channel
\* hidden exactly when a system_periodic_update at the same reading in the
\* same state leaves it hidden.
C27_SameHideDecision ==
  \A c \in Channels, d \in {0} \cup Steps, t \in TempValues, l \in LoadValues :
    (LastValue(m, c) = 0 /\ Arg(<<t, l>>, c) = 0)
      => LET now == U32Add(clock, d)
         IN  Hidden(system_process_data(Fresh(m), t, l, now, now), c)
               <=> Hidden(system_periodic_update(Fresh(m), now, now), c)

\* ------------------------------------------------------------------------
\* C28
\* ------------------------------------------------------------------------

\* C28: after every event of a sequence of system_process_data and
\* system_periodic_update calls, the controller and a controller given the
\* same calls with every clock reading ClockShift later (modulo 2^32) have
\* made the same capability invocations in that event and have the same
\* hidden, blanked and first-data flags.
C28_ShiftInvariant ==
  /\ twin.trace = m.trace
  /\ twin.sys_cpu_temp_meter_hidden = m.sys_cpu_temp_meter_hidden
  /\ twin.sys_cpu_load_meter_hidden = m.sys_cpu_load_meter_hidden
  /\ twin.sys_display_blanked = m.sys_display_blanked
  /\ twin.sys_first_data_received = m.sys_first_data_received

\* ------------------------------------------------------------------------
\* C29
\* ------------------------------------------------------------------------

\* C29: between operations each meter widget is visible exactly when first
\* data has been received, the display is not blanked and the channel's
\* hidden flag is false; while the display is blanked both meters, the
\* centre button and the time label are hidden.
C29_WidgetsMatchState ==
  /\ \A c \in Channels :
       ~WidgetHidden(m, c)
         <=> (m.sys_first_data_received /\ ~m.sys_display_blanked /\ ~Hidden(m, c))
  /\ m.sys_display_blanked
       => /\ m.cpu_temp_meter
          /\ m.cpu_load_meter
          /\ m.center_button
          /\ m.time_label

\* ------------------------------------------------------------------------
\* C30
\* ------------------------------------------------------------------------

\* C30: between operations a channel whose hidden flag is true has last
\* value zero.
C30_HiddenImpliesZero ==
  \A c \in Channels : Hidden(m, c) => LastValue(m, c) = 0

\* the load meter is hidden after a zero run while the temperature, last
\* seen non-zero, is not
C30_Witness ==
  /\ Hidden(m, "load")
  /\ LastValue(m, "load") = 0
  /\ ~Hidden(m, "temp")
  /\ LastValue(m, "temp") > 0
  /\ zeroAge["load"] >= METER_HIDE_TIMEOUT_MS

\* ------------------------------------------------------------------------
\* C31
\* ------------------------------------------------------------------------

\* C31: what a call does to a channel does not depend on the other channel.
\* From every reachable state, a system_process_data and a
\* system_periodic_update leave the channel with the same last value, zero
\* start time and hidden flag, make the same hide and show calls for it,
\* and leave the same first-data flag, reception timestamp and blanked flag
\* as the same call does, whatever value it carries for the other channel,
\* from the state in which the other channel is as system_manager_init
\* left it; the channel's state after every event is therefore a function
\* of the timestamps and of the channel's own values.
C31_ChannelsIndependent ==
  \A a \in Channels :
    LET s1   == Fresh(m)
        s2   == WithChannel(s1, Other(a), -1, U32Zero, FALSE)
        p1   == system_periodic_update(s1, clock, clock)
        p2   == system_periodic_update(s2, clock, clock)
    IN  /\ ChannelState(p1, a) = ChannelState(p2, a)
        /\ ChannelTrace(p1, a) = ChannelTrace(p2, a)
        /\ ReceptionState(p1) = ReceptionState(p2)
        /\ \A v \in Values(a), w1, w2 \in Values(Other(a)) :
             LET r1 == ProcessChannel(s1, a, v, w1, clock, clock)
                 r2 == ProcessChannel(s2, a, v, w2, clock, clock)
             IN  /\ ChannelState(r1, a) = ChannelState(r2, a)
                 /\ ChannelTrace(r1, a) = ChannelTrace(r2, a)
                 /\ ReceptionState(r1) = ReceptionState(r2)

\* the temperature meter is hidden while the load, last seen non-zero, is
\* shown; a further zero temperature leaves the temperature channel
\* the same whether it comes with a non-zero load in this state or with a
\* zero load in the state whose load channel is as at initialisation
C31_Witness ==
  /\ Hidden(m, "temp")
  /\ LastValue(m, "load") > 0
  /\ ~Hidden(m, "load")
  /\ LET r1 == system_process_data(Fresh(m), 0, 5, clock, clock)
         r2 == system_process_data(WithChannel(Fresh(m), "load", -1, U32Zero, FALSE),
                                   0, 0, clock, clock)
     IN  /\ ChannelState(r1, "temp") = ChannelState(r2, "temp")
         /\ ChannelState(r1, "load") # ChannelState(r2, "load")

\* ------------------------------------------------------------------------
\* C32
\* ------------------------------------------------------------------------

\* C32: only whether a value is zero matters. From every reachable state,
\* and from that state with its non-zero last values replaced by -1 or by
\* 150, a system_process_data with any values (negative values, -1 and
\* values above 100 included) and a system_periodic_update leave the same
\* zero start times, flags, widgets and backlight and make the same calls
\* as the same call with each value replaced by 1 if it is not zero, from
\* the state whose last values are replaced likewise; the last values left
\* agree on being zero. The state after every later event is therefore the
\* same for any two non-zero values.
C32_OnlyZeroMatters ==
  LET f == Fresh(m)
  IN  /\ \A t \in TempValues, l \in LoadValues :
           LastAsNonZero(system_process_data(f, t, l, clock, clock))
             = LastAsNonZero(system_process_data(LastAsNonZero(f), NonZero(t), NonZero(l),
                                                 clock, clock))
      /\ LastAsNonZero(system_periodic_update(f, clock, clock))
           = system_periodic_update(LastAsNonZero(f), clock, clock)
      /\ \A x \in WideLastValues :
           LET s == LastReplaced(f, x)
           IN  /\ LastAsNonZero(system_periodic_update(s, clock, clock))
                    = system_periodic_update(LastAsNonZero(f), clock, clock)
               /\ \A t \in WideTempValues, l \in WideLoadValues :
                    LastAsNonZero(system_process_data(s, t, l, clock, clock))
                      = LastAsNonZero(system_process_data(LastAsNonZero(f), NonZero(t),
                                                          NonZero(l), clock, clock))

\* the temperature meter is hidden, and a temperature of 3 and one of -1
\* both show it, clear its zero timer and make the same calls
C32_Witness ==
  /\ Hidden(m, "temp")
  /\ LET r1 == system_process_data(Fresh(m), 3, 0, clock, clock)
         r2 == system_process_data(Fresh(m), -1, 0, clock, clock)
     IN  /\ Invoked(r1, "ui_show_cpu_temp_meter")
         /\ r1.trace = r2.trace
         /\ ~Hidden(r1, "temp") /\ ~Hidden(r2, "temp")
         /\ ZeroStart(r1, "temp") = U32Zero /\ ZeroStart(r2, "temp") = U32Zero
         /\ LastValue(r1, "temp") # LastValue(r2, "temp")

\* ------------------------------------------------------------------------
\* C33
\* ------------------------------------------------------------------------

\* C33: a system_process_data that starts a zero timer (the value is zero
\* and the last value was not) leaves that timer equal to the reception
\* timestamp it stored, whatever time the call took.
C33_OneInstant ==
  [][\A c \in Channels :
       op' = "ingest" /\ Arg(args', c) = 0 /\ LastValue(m, c) # 0
         => ZeroStart(m', c) = m'.sys_last_data_received_time]_vars

\* ------------------------------------------------------------------------
\* C34
\* ------------------------------------------------------------------------

\* C34: every iteration of loop() is the sequence serial part, then
\* system_periodic_update, then the delay. The serial part makes at most
\* one system_process_data call (exactly one when a record was parsed, none
\* otherwise) and is followed by system_periodic_update whether or not data
\* was available; system_process_data runs only in the serial part and
\* system_periodic_update only after it, so no step holds both, and the
\* periodic step reads no record and the delay calls neither.
C34_LoopAlternates ==
  [][/\ pc = "serial"
          => /\ pc' = "periodic"
             /\ op' \in {"no_data", "parse_error", "ingest"}
             /\ Count(m'.trace, "stamp") = (IF op' = "ingest" THEN 1 ELSE 0)
             /\ ~Invoked(m', "ui_blank_entire_display")
             /\ op' # "ingest" => m' = Fresh(m)
     /\ pc = "periodic"
          => /\ pc' = "delay"
             /\ op' = "periodic"
             /\ Count(m'.trace, "stamp") = 0
             /\ m' = system_periodic_update(Fresh(m), clock, clock')
     /\ pc = "delay"
          => /\ pc' = "serial"
             /\ op' = "advance"
             /\ m' = Fresh(m)
     /\ op' = "ingest" => pc = "serial"
     /\ op' = "periodic" => pc = "periodic"]_vars

\* an iteration that found no data on the serial line, after data had been
\* received and time had passed, is about to call system_periodic_update
C34_Witness ==
  /\ op = "no_data"
  /\ pc = "periodic"
  /\ m.sys_first_data_received
  /\ recvAge > 0

\* ------------------------------------------------------------------------
\* C35
\* ------------------------------------------------------------------------

\* C35: the timer interrupt touches no controller state. With the interrupt
\* firing between any two calls of the loop and in the middle of
\* system_process_data and of system_periodic_update, the controller's
\* globals, the widgets, the backlight and the calls made are, after every
\* call, those of the run in which the interrupt never fired.
C35_InterruptInvisible ==
  pc \in {"serial", "periodic", "delay"} => m = quiet

\* the interrupt has fired twice, the second time in the middle of a
\* system_process_data that restored the blanked display, and the rest of
\* that call ends as in the run without the interrupt
C35_Witness ==
  /\ op = "tick"
  /\ lv_tick >= 2
  /\ pc = "meters"
  /\ Invoked(m, "ui_show_entire_display")
  /\ quiet.sys_display_blanked
  /\ loop_serial_meters(m, args[1], args[2], clock)
       = loop_serial(Fresh(quiet), TRUE, FALSE, args[1], args[2], clock, clock)

\* ------------------------------------------------------------------------
\* C36
\* ------------------------------------------------------------------------

\* C36: called in any reachable state, system_manager_init leaves the
\* first-data flag false, the reception timestamp 0, both last values -1,
\* both zero start times 0, both hidden flags and the blanked flag false
\* (the globals setup() leaves), makes no call and leaves the widgets and
\* the backlight as they were.
C36_InitResets ==
  LET r == system_manager_init_from(Fresh(m))
  IN  /\ r.sys_first_data_received = FALSE
      /\ r.sys_last_data_received_time = U32Zero
      /\ \A c \in Channels :
           /\ LastValue(r, c) = -1
           /\ ZeroStart(r, c) = U32Zero
           /\ ~Hidden(r, c)
      /\ r.sys_display_blanked = FALSE
      /\ Globals(r) = Globals(system_manager_init)
      /\ r.trace = << >>
      /\ Devices(r) = Devices(m)

\* the display is blanked with both meters hidden after data was received,
\* and system_manager_init called now changes every global but not the
\* backlight, which stays off
C36_Witness ==
  /\ m.sys_display_blanked
  /\ m.sys_first_data_received
  /\ m.sys_last_data_received_time # U32Zero
  /\ \A c \in Channels : Hidden(m, c) /\ LastValue(m, c) = 0 /\ ZeroStart(m, c) # U32Zero
  /\ ~m.backlight
  /\ ~system_manager_init_from(Fresh(m)).backlight
  /\ ~system_manager_init_from(Fresh(m)).sys_display_blanked

====
